---- MODULE Spec2Model ----
(***************************************************************************)
(* A model of the CFTC part of app.py: get_cftc_data (the two downloads    *)
(* and their concatenation), find_column, process_cftc, and the main       *)
(* program's use of them (gold, euro, get_macro_multi, the staleness       *)
(* alert, the two charts).  Strings are sequences of one-character strings, so that       *)
(* str.lower, str.upper and the substring test `k in s` are computed.      *)
(***************************************************************************)
EXTENDS Integers, Sequences, FiniteSets, TLC

VARIABLES
    pc,          \* position of the main program
    year,        \* datetime.datetime.now().year read by get_cftc_data
    srv_hist,    \* what the server answers to the annual-history request
    srv_live,    \* what the server answers to the latest-week request
    requests,    \* the requests.get calls made so far, in order
    df_hist,     \* get_cftc_data's df_hist
    df_live,     \* get_cftc_data's df_live
    cftc_df,     \* the main program's cftc_df
    gold_data,   \* the main program's gold_data
    euro_data,   \* the main program's euro_data
    macro_df,    \* the main program's macro_df: which columns hold a series
    today,       \* datetime.datetime.now() read by render_news_alert, in days
    alert,       \* whether render_news_alert showed st.error
    gold_view,   \* what simple_chart showed for gold
    euro_view,   \* what simple_chart showed for euro
    fc_columns,  \* find_column's argument columns
    fc_keywords, \* find_column's argument keywords
    fc_result,   \* find_column's return value
    fc_pc        \* whether find_column has been called

vars ==
    <<pc, year, srv_hist, srv_live, requests, df_hist, df_live, cftc_df,
      gold_data, euro_data, macro_df, today, alert, gold_view, euro_view,
      fc_columns, fc_keywords, fc_result, fc_pc>>

mainVars ==
    <<pc, year, srv_hist, srv_live, requests, df_hist, df_live, cftc_df,
      gold_data, euro_data, macro_df, today, alert, gold_view, euro_view>>

findVars ==
    <<fc_columns, fc_keywords, fc_result, fc_pc>>

(***************************************************************************)
(* Bounds of the inputs.                                                   *)
(***************************************************************************)
MaxHistRows ==
    2

MaxLiveRows ==
    1

MaxDate ==
    2

MaxCols ==
    3

MaxKeywords ==
    2

(***************************************************************************)
(* Python values.  A string is a sequence of characters; a column label    *)
(* or a cell is a tagged record, so that values of different Python types  *)
(* are never confused: [str |-> s], [int |-> n], [dstr |-> d] (a cell      *)
(* holding the text of calendar day d), NaN (a missing cell) and None.     *)
(***************************************************************************)
StrNan ==
    <<"n", "a", "n">>
UpperChars ==
    <<"A", "B", "C", "D", "E", "F", "G", "H", "I", "J", "K", "L", "M", "N", "O", "P", "Q", "R", "S", "T", "U", "V", "W", "X", "Y", "Z">>
LowerChars ==
    <<"a", "b", "c", "d", "e", "f", "g", "h", "i", "j", "k", "l", "m", "n", "o", "p", "q", "r", "s", "t", "u", "v", "w", "x", "y", "z">>
DigitChars ==
    <<"0", "1", "2", "3", "4", "5", "6", "7", "8", "9">>

None ==
    [none |-> TRUE]

NaN ==
    [nan |-> TRUE]

S(s) ==
    [str |-> s]

I(n) ==
    [int |-> n]

D(d) ==
    [dstr |-> d]

IsStr(x) ==
    DOMAIN x = {"str"}

IsInt(x) ==
    DOMAIN x = {"int"}

IsDStr(x) ==
    DOMAIN x = {"dstr"}

\* The position of character c in the alphabet seq, 0 when it is not in it.
CharIndex(c, seq) ==
    IF \E i \in 1..Len(seq) : seq[i] = c
    THEN CHOOSE i \in 1..Len(seq) : seq[i] = c
    ELSE 0

\* str.lower()
Lower(s) ==
    [i \in 1..Len(s) |->
        IF CharIndex(s[i], UpperChars) > 0
        THEN LowerChars[CharIndex(s[i], UpperChars)]
        ELSE s[i]]

\* str.upper()
Upper(s) ==
    [i \in 1..Len(s) |->
        IF CharIndex(s[i], LowerChars) > 0
        THEN UpperChars[CharIndex(s[i], LowerChars)]
        ELSE s[i]]

\* Python's `k in s` for two strings.
Contains(k, s) ==
    \E i \in 0..(Len(s) - Len(k)) : SubSeq(s, i + 1, i + Len(k)) = k

\* The decimal digits of a natural number.
RECURSIVE Digits(_)
Digits(n) ==
    IF n < 10 THEN <<DigitChars[n + 1]>>
    ELSE Digits(n \div 10) \o <<DigitChars[(n % 10) + 1]>>

\* str(x) for a column label or a cell.
Str(x) ==
    CASE IsStr(x) -> x.str
      [] IsInt(x) -> Digits(x.int)
      [] x = NaN -> StrNan

\* Python truthiness of what find_column returns: None, "" and 0 are falsy.
Truthy(x) ==
    /\ x # None
    /\ x # S(<<>>)
    /\ x # I(0)

\* Python's `a or b`.
Or(a, b) ==
    IF Truthy(a) THEN a ELSE b

(***************************************************************************)
(* find_column                                                             *)
(***************************************************************************)
\* all(k in col_lower for k in keywords)
AllKeywordsIn(keywords, col_lower) ==
    \A j \in 1..Len(keywords) : Contains(keywords[j], col_lower)

\* The for loop of find_column from position i on.
RECURSIVE find_column_from(_, _, _)
find_column_from(columns, keywords, i) ==
    IF i > Len(columns) THEN None
    ELSE LET col == columns[i]
             col_lower == Lower(Str(col))
         IN  IF AllKeywordsIn(keywords, col_lower)
             THEN col
             ELSE find_column_from(columns, keywords, i + 1)

\* A variant of find_column that accepts a column containing any keyword.
RECURSIVE find_column_any_from(_, _, _)
find_column_any_from(columns, keywords, i) ==
    IF i > Len(columns) THEN None
    ELSE IF \E j \in 1..Len(keywords) :
                Contains(keywords[j], Lower(Str(columns[i])))
         THEN columns[i]
         ELSE find_column_any_from(columns, keywords, i + 1)

find_column_any(columns, keywords) ==
    find_column_any_from(columns, keywords, 1)

find_column(columns, keywords) ==
    find_column_from(columns, keywords, 1)

(***************************************************************************)
(* Data frames.  A frame is its column labels and its rows, each row a     *)
(* sequence of cells aligned with the labels.  The row index of a frame    *)
(* built with ignore_index=True is the row's position, from 0.             *)
(***************************************************************************)
\* pd.DataFrame()
EmptyDF ==
    [cols |-> <<>>, rows |-> <<>>]

\* df.empty: some axis has length 0
Empty(df) ==
    Len(df.cols) = 0 \/ Len(df.rows) = 0

HasCol(cols, label) ==
    \E i \in 1..Len(cols) : cols[i] = label

\* The position of the column df[label] reads.
ColPos(cols, label) ==
    CHOOSE i \in 1..Len(cols) :
        cols[i] = label /\ \A j \in 1..(i - 1) : cols[j] # label

\* A body that is no zip archive of a table, or no table at all.
Garbage ==
    [garbage |-> TRUE]

\* requests.get raised (a timeout, a connection error).
Raised ==
    [exc |-> TRUE, status |-> 0, body |-> Garbage]

\* requests.get returned a response with this status code and content.
Response(code, body) ==
    [exc |-> FALSE, status |-> code, body |-> body]

\* pd.read_csv(..., compression="zip"): the first line is the header.
\* Called only on a body that parses.
read_csv(body) ==
    [cols |-> body.cols, rows |-> body.rows]

\* pd.read_csv(..., header=None): the columns are labelled 0, 1, ...
read_csv_noheader(body) ==
    [cols |-> [i \in 1..Len(body.rows[1]) |-> I(i - 1)], rows |-> body.rows]

\* pd.read_csv raises on this body: not a table, or no line in it.
Unparsable(body) ==
    body = Garbage \/ (Len(body.rows) = 0 /\ Len(body.cols) = 0)

\* df_hist after the first try block.
HistFrame(r) ==
    IF r.exc THEN EmptyDF
    ELSE IF r.status = 200
         THEN IF Unparsable(r.body) THEN EmptyDF ELSE read_csv(r.body)
         ELSE EmptyDF

\* df_live after the second try block.  When the column counts differ the
\* assignment of df_hist.columns raises after df_live has been bound, and
\* df_live keeps the labels 0, 1, ...
LiveFrame(r2, hist) ==
    IF r2.exc THEN EmptyDF
    ELSE IF r2.status = 200 /\ ~Empty(hist)
         THEN IF Unparsable(r2.body) THEN EmptyDF
              ELSE LET parsed == read_csv_noheader(r2.body)
                   IN  IF Len(parsed.cols) = Len(hist.cols)
                       THEN [cols |-> hist.cols, rows |-> parsed.rows]
                       ELSE parsed
         ELSE EmptyDF

\* pd.concat([a, b], ignore_index=True): the union of the columns in order
\* of appearance, a's rows then b's, NaN where a frame lacks a column.
Reindex(df, cols) ==
    [r \in 1..Len(df.rows) |->
        [j \in 1..Len(cols) |->
            IF HasCol(df.cols, cols[j])
            THEN df.rows[r][ColPos(df.cols, cols[j])]
            ELSE NaN]]

Concat(a, b) ==
    LET cols == a.cols \o SelectSeq(b.cols, LAMBDA c : ~HasCol(a.cols, c))
    IN  [cols |-> cols, rows |-> Reindex(a, cols) \o Reindex(b, cols)]

\* A variant of ConcatResult that gives up when either frame is empty.
ConcatResultEither(hist, live) ==
    IF Empty(hist) \/ Empty(live) THEN EmptyDF
    ELSE Concat(hist, live)

\* The last two statements of get_cftc_data.
ConcatResult(hist, live) ==
    IF Empty(hist) /\ Empty(live) THEN EmptyDF
    ELSE Concat(hist, live)

\* The requests.get calls of one run of get_cftc_data, in order.
RequestsMade(y) ==
    <<[kind |-> "history", year |-> y], [kind |-> "latest"]>>

(***************************************************************************)
(* process_cftc                                                            *)
(***************************************************************************)
KwMarket ==
    <<"m", "a", "r", "k", "e", "t">>

KwExchange ==
    <<"e", "x", "c", "h", "a", "n", "g", "e">>

KwContract ==
    <<"c", "o", "n", "t", "r", "a", "c", "t">>

KwName ==
    <<"n", "a", "m", "e">>

KwReport ==
    <<"r", "e", "p", "o", "r", "t">>

KwDate ==
    <<"d", "a", "t", "e">>

KwAs ==
    <<"a", "s">>

KwOf ==
    <<"o", "f">>

KwMoney ==
    <<"m", "o", "n", "e", "y">>

KwLong ==
    <<"l", "o", "n", "g">>

KwShort ==
    <<"s", "h", "o", "r", "t">>

KwGOLD ==
    <<"G", "O", "L", "D">>

KwCOMMODITY ==
    <<"C", "O", "M", "M", "O", "D", "I", "T", "Y">>

KwEUROFX ==
    <<"E", "U", "R", "O", " ", "F", "X">>

KwCHICAGO ==
    <<"C", "H", "I", "C", "A", "G", "O">>

NameKeywords1 ==
    <<KwMarket, KwExchange>>

NameKeywords2 ==
    <<KwContract, KwName>>

DateKeywords1 ==
    <<KwReport, KwDate>>

DateKeywords2 ==
    <<KwAs, KwOf, KwDate>>

LongKeywords ==
    <<KwMoney, KwLong>>

ShortKeywords ==
    <<KwMoney, KwShort>>

GoldKeywords ==
    <<KwGOLD, KwCOMMODITY>>

EuroKeywords ==
    <<KwEUROFX, KwCHICAGO>>

\* pd.NaT, kept apart from every calendar day (days are numbered from 1).
NaT ==
    0

\* data.tail(52)
TailWindow ==
    52

\* render_news_alert: days_diff > 14
AlertDays ==
    14

\* the lambda of the mask: any(k in str(x).upper() for k in name_keywords)
NameMatches(x, name_keywords) ==
    \E j \in 1..Len(name_keywords) : Contains(name_keywords[j], Upper(Str(x)))

\* pd.to_datetime on one cell of the date column.
to_datetime(x) ==
    CASE IsDStr(x) -> x.dstr
      [] x = NaN -> NaT

\* data[long_col] - data[short_col] on one row.
Minus(a, b) ==
    IF a = NaN \/ b = NaN THEN NaN ELSE I(a.int - b.int)

\* process_cftc returned this frame / raised.
Returned(data) ==
    [raised |-> FALSE, data |-> data]

RaisedError ==
    [raised |-> TRUE, data |-> <<>>]

\* The positions of df's rows that the mask keeps, in order.
RECURSIVE MaskedFrom(_, _, _, _)
MaskedFrom(df, name_pos, name_keywords, i) ==
    IF i > Len(df.rows) THEN <<>>
    ELSE (IF NameMatches(df.rows[i][name_pos], name_keywords) THEN <<i>> ELSE <<>>)
         \o MaskedFrom(df, name_pos, name_keywords, i + 1)

\* data after Net and Date_Display are added: one record per kept row, with
\* its index label, its name cell, its parsed date and its net position.
Derived(df, kept, name_pos, date_pos, long_pos, short_pos) ==
    [n \in 1..Len(kept) |->
        LET row == df.rows[kept[n]]
        IN  [idx |-> kept[n] - 1,
             name |-> row[name_pos],
             Date_Display |-> to_datetime(row[date_pos]),
             Net |-> Minus(row[long_pos], row[short_pos])]]

Without(s, i) ==
    SubSeq(s, 1, i - 1) \o SubSeq(s, i + 1, Len(s))

\* The orders an argsort whose kind is not stable (the default, quicksort)
\* may give rows that all have a date: ascending, equal dates in any order.
RECURSIVE ArgsortOutcomes(_)
ArgsortOutcomes(s) ==
    IF s = <<>> THEN {<<>>}
    ELSE LET least == {i \in 1..Len(s) :
                          \A j \in 1..Len(s) : s[i].Date_Display <= s[j].Date_Display}
         IN  UNION {{<<s[i]>> \o rest : rest \in ArgsortOutcomes(Without(s, i))} :
                        i \in least}

\* data.sort_values("Date_Display"): the rows with a date sorted, the rows
\* whose date is NaT after them in their original order (na_position="last").
SortOutcomes(data) ==
    LET dated == SelectSeq(data, LAMBDA r : r.Date_Display # NaT)
        nulls == SelectSeq(data, LAMBDA r : r.Date_Display = NaT)
    IN  {sorted \o nulls : sorted \in ArgsortOutcomes(dated)}

\* data.drop_duplicates(subset=["Date_Display"], keep="last")
RECURSIVE DropDuplicatesFrom(_, _)
DropDuplicatesFrom(data, i) ==
    IF i > Len(data) THEN <<>>
    ELSE (IF \E j \in (i + 1)..Len(data) : data[j].Date_Display = data[i].Date_Display
          THEN <<>> ELSE <<data[i]>>)
         \o DropDuplicatesFrom(data, i + 1)

drop_duplicates(data) ==
    DropDuplicatesFrom(data, 1)

\* data.tail(n)
tail(data, n) ==
    IF Len(data) <= n THEN data ELSE SubSeq(data, Len(data) - n + 1, Len(data))

\* process_cftc(df, name_keywords): the set of its possible outcomes.
process_cftc(df, name_keywords) ==
    IF Empty(df) THEN {Returned(<<>>)}
    ELSE
    LET name_col == Or(find_column(df.cols, NameKeywords1),
                       find_column(df.cols, NameKeywords2))
    IN
    IF ~Truthy(name_col) THEN {Returned(<<>>)}
    ELSE
    LET name_pos == ColPos(df.cols, name_col)
        kept == MaskedFrom(df, name_pos, name_keywords, 1)
    IN
    IF kept = <<>> THEN {Returned(<<>>)}
    ELSE
    LET date_col == Or(find_column(df.cols, DateKeywords1),
                       find_column(df.cols, DateKeywords2))
    IN
    \* data[None] raises KeyError
    IF ~HasCol(df.cols, date_col) THEN {RaisedError}
    ELSE
    LET long_col == find_column(df.cols, LongKeywords)
        short_col == find_column(df.cols, ShortKeywords)
    IN
    IF ~Truthy(long_col) \/ ~Truthy(short_col) THEN {Returned(<<>>)}
    ELSE
    LET data == Derived(df, kept, name_pos, ColPos(df.cols, date_col),
                        ColPos(df.cols, long_col), ColPos(df.cols, short_col))
    IN  {Returned(tail(drop_duplicates(sorted), TailWindow)) :
            sorted \in SortOutcomes(data)}

(***************************************************************************)
(* get_macro_multi.  A fetched frame or series is kept only as the fact    *)
(* that it holds data; the sources dict, which nothing before the second   *)
(* tab reads, is left out.                                                 *)
(***************************************************************************)
\* A DataFrame a source returned / a Series made of one.
Frame ==
    [frame |-> TRUE]

Series ==
    [series |-> TRUE]

\* _fetch_tradingeconomics: a frame when the request and its parsing
\* succeed, None on any exception or an empty answer.
fetch_tradingeconomics(te_up) ==
    IF te_up THEN Frame ELSE None

\* _fetch_macromicro_local: a frame when the file exists with DATE and
\* VALUE columns, else None.
fetch_macromicro_local(mm_file) ==
    IF mm_file THEN Frame ELSE None

\* _fetch_fred_with_backup, its frame: from the site, else from the local
\* backup, else None.
fetch_fred_with_backup(fred) ==
    IF fred \in {"online", "backup"} THEN Frame ELSE None

\* fred_df["VALUE"].pct_change(12).to_frame / .diff().to_frame, or None
Derive(fred_df) ==
    IF fred_df # None THEN Frame ELSE None

\* _prioritize_series: the first non-None entry combined with the later
\* ones, None when every entry is None.
prioritize_series(series_list) ==
    IF \A i \in 1..Len(series_list) : series_list[i] = None THEN None
    ELSE Series

\* pd.DataFrame(dict of the four series): with every value None pandas
\* raises ValueError (all scalar values and no index); else a column holds
\* data where its series is not None.
DataFrameOf(fed_funds_series, cpi_series, nfp_series, claims_series) ==
    IF /\ fed_funds_series = None
       /\ cpi_series = None
       /\ nfp_series = None
       /\ claims_series = None
    THEN [raised |-> TRUE, cols |-> <<>>]
    ELSE [raised |-> FALSE,
          cols |-> [fed_funds |-> fed_funds_series # None,
                    cpi_yoy |-> cpi_series # None,
                    nfp_change |-> nfp_series # None,
                    jobless_claims |-> claims_series # None]]

\* get_macro_multi() when TradingEconomics answers or not, the local
\* MacroMicro files exist or not, and FRED is online, backed up or neither.
get_macro_multi(te_up, mm_file, fred) ==
    LET te == fetch_tradingeconomics(te_up)
        mm == fetch_macromicro_local(mm_file)
        fred_df == fetch_fred_with_backup(fred)
        fed_funds_series == prioritize_series(<<te, fred_df>>)
        cpi_series == prioritize_series(<<te, mm, Derive(fred_df)>>)
        nfp_series == prioritize_series(<<te, mm, Derive(fred_df)>>)
        claims_series == prioritize_series(<<te, mm, fred_df>>)
    IN  DataFrameOf(fed_funds_series, cpi_series, nfp_series, claims_series)

\* What FRED may be: its site answering, only the local backup there, or
\* neither.
FredStates ==
    {"online", "backup", "none"}

(***************************************************************************)
(* render_news_alert and simple_chart                                      *)
(***************************************************************************)
\* Whether render_news_alert(last_date_obj) shows st.error when
\* datetime.datetime.now() is day now.
render_news_alert(last_date_obj, now) ==
    IF last_date_obj = NaT THEN FALSE
    ELSE LET days_diff == now - last_date_obj
         IN  days_diff > AlertDays

\* simple_chart(data, ...): the warning, the metric with the chart, or an
\* error raised by NaT.strftime or int(NaN).
simple_chart(data) ==
    IF data = <<>> THEN "warning"
    ELSE LET last == data[Len(data)]
         IN  IF last.Date_Display = NaT \/ last.Net = NaN THEN "raise"
             ELSE "metric"

(***************************************************************************)
(* The inputs: the tables the server may hold.  A layout is the header of  *)
(* one report vintage, each column with the cells it may hold.             *)
(***************************************************************************)
ColMarketNames ==
    <<"M", "a", "r", "k", "e", "t", "_", "a", "n", "d", "_", "E", "x", "c", "h", "a", "n", "g", "e", "_", "N", "a", "m", "e", "s">>

ColContractName ==
    <<"C", "o", "n", "t", "r", "a", "c", "t", "_", "N", "a", "m", "e">>

ColContractCode ==
    <<"C", "F", "T", "C", "_", "C", "o", "n", "t", "r", "a", "c", "t", "_", "M", "a", "r", "k", "e", "t", "_", "C", "o", "d", "e">>

ColAsOfDate ==
    <<"A", "s", "_", "o", "f", "_", "D", "a", "t", "e", "_", "I", "n", "_", "F", "o", "r", "m", "_", "Y", "Y", "M", "M", "D", "D">>

ColReportDate ==
    <<"R", "e", "p", "o", "r", "t", "_", "D", "a", "t", "e", "_", "a", "s", "_", "Y", "Y", "Y", "Y", "-", "M", "M", "-", "D", "D">>

ColMMLong ==
    <<"M", "_", "M", "o", "n", "e", "y", "_", "P", "o", "s", "i", "t", "i", "o", "n", "s", "_", "L", "o", "n", "g", "_", "A", "l", "l">>

ColMMShort ==
    <<"M", "_", "M", "o", "n", "e", "y", "_", "P", "o", "s", "i", "t", "i", "o", "n", "s", "_", "S", "h", "o", "r", "t", "_", "A", "l", "l">>

ColNCLong ==
    <<"N", "o", "n", "C", "o", "m", "m", "_", "P", "o", "s", "i", "t", "i", "o", "n", "s", "_", "L", "o", "n", "g", "_", "A", "l", "l">>

ColNCShort ==
    <<"N", "o", "n", "C", "o", "m", "m", "_", "P", "o", "s", "i", "t", "i", "o", "n", "s", "_", "S", "h", "o", "r", "t", "_", "A", "l", "l">>

NameGold ==
    <<"G", "O", "L", "D", " ", "-", " ", "C", "O", "M", "M", "O", "D", "I", "T", "Y", " ", "E", "X", "C", "H", "A", "N", "G", "E", " ", "I", "N", "C", ".">>

NameSilver ==
    <<"S", "i", "l", "v", "e", "r", " ", "-", " ", "C", "o", "m", "m", "o", "d", "i", "t", "y", " ", "E", "x", "c", "h", "a", "n", "g", "e", " ", "I", "n", "c", ".">>

NameEuro ==
    <<"E", "U", "R", "O", " ", "F", "X", " ", "-", " ", "C", "H", "I", "C", "A", "G", "O", " ", "M", "E", "R", "C", "A", "N", "T", "I", "L", "E", " ", "E", "X", "C", "H", "A", "N", "G", "E">>

\* The cells the columns of the main program's tables may hold.
FullCells ==
    [name |-> {S(NameGold), S(NameSilver), S(NameEuro)},
     date |-> {D(d) : d \in 1..MaxDate} \cup {NaN},
     long |-> {I(1), I(2)},
     short |-> {I(1)}]

\* A sample of them, for get_cftc_data on its own: it reads no cell.
SampleCells ==
    [name |-> {S(NameGold), S(NameEuro)},
     date |-> {D(1)},
     long |-> {I(2)},
     short |-> {I(1)}]

Column(label, dom) ==
    [label |-> S(label), dom |-> dom]

\* The disaggregated report.
LayoutDisagg(cells) ==
    <<Column(ColMarketNames, cells.name), Column(ColAsOfDate, {I(0)}),
      Column(ColReportDate, cells.date), Column(ColMMLong, cells.long),
      Column(ColMMShort, cells.short)>>

\* A vintage with no date column, its names under Contract_Name.
LayoutNoDate(cells) ==
    <<Column(ColContractName, cells.name), Column(ColMMLong, cells.long),
      Column(ColMMShort, cells.short)>>

\* The legacy report: non-commercial positions, no managed money.
LayoutLegacy(cells) ==
    <<Column(ColMarketNames, cells.name), Column(ColReportDate, cells.date),
      Column(ColNCLong, cells.long), Column(ColNCShort, cells.short)>>

\* A vintage with contract codes and no name column.
LayoutNoName(cells) ==
    <<Column(ColContractCode, {I(0)}), Column(ColReportDate, cells.date),
      Column(ColMMLong, cells.long), Column(ColMMShort, cells.short)>>

Layouts(cells) ==
    <<LayoutDisagg(cells), LayoutNoDate(cells), LayoutLegacy(cells),
      LayoutNoName(cells)>>

Labels(layout) ==
    [i \in 1..Len(layout) |-> layout[i].label]

RECURSIVE RowsOf(_)
RowsOf(layout) ==
    IF layout = <<>> THEN {<<>>}
    ELSE {<<c>> \o r : c \in Head(layout).dom, r \in RowsOf(Tail(layout))}

SeqsUpTo(set, n) ==
    UNION {[1..k -> set] : k \in 0..n}

Years ==
    {2025, 2026}

FailedResponses ==
    {Raised, Response(404, Garbage), Response(200, Garbage)}

\* What the server may answer to the annual-history request.
HistResponses(cells) ==
    FailedResponses
    \cup UNION {{Response(200, [cols |-> Labels(Layouts(cells)[n]), rows |-> rows]) :
                    rows \in SeqsUpTo(RowsOf(Layouts(cells)[n]), MaxHistRows)} :
                n \in 1..Len(Layouts(cells))}

\* The latest-week file has no header line.  It is of the history file's
\* vintage, or of a vintage with another number of columns.
LiveLayoutsFor(h, cells) ==
    IF h.exc \/ h.body = Garbage THEN 1..Len(Layouts(cells))
    ELSE {n \in 1..Len(Layouts(cells)) :
            \/ Labels(Layouts(cells)[n]) = h.body.cols
            \/ Len(Layouts(cells)[n]) # Len(h.body.cols)}

LiveResponses(h, cells) ==
    FailedResponses
    \cup UNION {{Response(200, [cols |-> <<>>, rows |-> rows]) :
                    rows \in SeqsUpTo(RowsOf(Layouts(cells)[n]), MaxLiveRows) \ {<<>>}} :
                n \in LiveLayoutsFor(h, cells)}

\* The days datetime.datetime.now() may be when the alert is rendered.
Todays ==
    {MaxDate + AlertDays - 1, MaxDate + AlertDays}

(***************************************************************************)
(* The main program.                                                       *)
(***************************************************************************)
Unset ==
    [unset |-> TRUE]

FindIdle ==
    /\ fc_columns = <<>>
    /\ fc_keywords = <<>>
    /\ fc_result = None
    /\ fc_pc = "idle"

\* A history table longer than the trailing window: one gold row a week,
\* oldest first.
LongHistory ==
    [cols |-> Labels(LayoutDisagg(FullCells)),
     rows |-> [w \in 1..(TailWindow + 1) |->
                 <<S(NameGold), I(0), D(w), I(2), I(1)>>]]

\* The state before the main program runs, the server answering the
\* history request with one of hists and holding tables of these cells.
Start(hists, cells) ==
    /\ pc = "fetch"
    /\ year \in Years
    /\ srv_hist \in hists
    /\ srv_live \in LiveResponses(srv_hist, cells)
    /\ requests = <<>>
    /\ df_hist = EmptyDF
    /\ df_live = EmptyDF
    /\ cftc_df = Unset
    /\ gold_data = Unset
    /\ euro_data = Unset
    /\ macro_df = Unset
    /\ today = 0
    /\ alert = FALSE
    /\ gold_view = "none"
    /\ euro_view = "none"
    /\ FindIdle

Init ==
    Start(HistResponses(FullCells) \cup {Response(200, LongHistory)}, FullCells)

\* cftc_df = get_cftc_data()
GetCftcData ==
    /\ pc = "fetch"
    /\ LET hist == HistFrame(srv_hist)
           live == LiveFrame(srv_live, hist)
       IN  /\ df_hist' = hist
           /\ df_live' = live
           /\ cftc_df' = ConcatResult(hist, live)
    /\ requests' = requests \o RequestsMade(year)
    /\ pc' = "gold"
    /\ UNCHANGED <<year, srv_hist, srv_live, gold_data, euro_data, macro_df,
                   today, alert, gold_view, euro_view>>
    /\ UNCHANGED findVars

\* gold_data = process_cftc(cftc_df, ["GOLD", "COMMODITY"])
ProcessGold ==
    /\ pc = "gold"
    /\ \E out \in process_cftc(cftc_df, GoldKeywords) :
          /\ gold_data' = out
          /\ pc' = IF out.raised THEN "crashed" ELSE "euro"
    /\ UNCHANGED <<year, srv_hist, srv_live, requests, df_hist, df_live, cftc_df,
                   euro_data, macro_df, today, alert, gold_view, euro_view>>
    /\ UNCHANGED findVars

\* euro_data = process_cftc(cftc_df, ["EURO FX", "CHICAGO"])
ProcessEuro ==
    /\ pc = "euro"
    /\ \E out \in process_cftc(cftc_df, EuroKeywords) :
          /\ euro_data' = out
          /\ pc' = IF out.raised THEN "crashed" ELSE "macro"
    /\ UNCHANGED <<year, srv_hist, srv_live, requests, df_hist, df_live, cftc_df,
                   gold_data, macro_df, today, alert, gold_view, euro_view>>
    /\ UNCHANGED findVars

\* macro_df, macro_sources = get_macro_multi()
GetMacroMulti ==
    /\ pc = "macro"
    /\ \E te_up \in BOOLEAN, mm_file \in BOOLEAN, fred \in FredStates :
          LET got == get_macro_multi(te_up, mm_file, fred)
          IN  /\ macro_df' = got
              /\ pc' = IF got.raised THEN "crashed" ELSE "alert"
    /\ UNCHANGED <<year, srv_hist, srv_live, requests, df_hist, df_live, cftc_df,
                   gold_data, euro_data, today, alert, gold_view, euro_view>>
    /\ UNCHANGED findVars

\* if not gold_data.empty: render_news_alert(last_val["Date_Display"])
RenderAlert ==
    /\ pc = "alert"
    /\ IF gold_data.data # <<>>
       THEN \E now \in Todays :
               /\ today' = now
               /\ alert' = render_news_alert(
                              gold_data.data[Len(gold_data.data)].Date_Display, now)
       ELSE UNCHANGED <<today, alert>>
    /\ pc' = "chart_gold"
    /\ UNCHANGED <<year, srv_hist, srv_live, requests, df_hist, df_live, cftc_df,
                   gold_data, euro_data, macro_df, gold_view, euro_view>>
    /\ UNCHANGED findVars

\* simple_chart(gold_data, "Gold (XAU)", ...)
ChartGold ==
    /\ pc = "chart_gold"
    /\ LET shown == simple_chart(gold_data.data)
       IN  /\ gold_view' = shown
           /\ pc' = IF shown = "raise" THEN "crashed" ELSE "chart_euro"
    /\ UNCHANGED <<year, srv_hist, srv_live, requests, df_hist, df_live, cftc_df,
                   gold_data, euro_data, macro_df, today, alert, euro_view>>
    /\ UNCHANGED findVars

\* simple_chart(euro_data, "Euro (EUR)", ...)
ChartEuro ==
    /\ pc = "chart_euro"
    /\ LET shown == simple_chart(euro_data.data)
       IN  /\ euro_view' = shown
           /\ pc' = IF shown = "raise" THEN "crashed" ELSE "done"
    /\ UNCHANGED <<year, srv_hist, srv_live, requests, df_hist, df_live, cftc_df,
                   gold_data, euro_data, macro_df, today, alert, gold_view>>
    /\ UNCHANGED findVars

Next ==
    \/ GetCftcData
    \/ ProcessGold
    \/ ProcessEuro
    \/ GetMacroMulti
    \/ RenderAlert
    \/ ChartGold
    \/ ChartEuro

Spec ==
    Init /\ [][Next]_vars

(***************************************************************************)
(* get_cftc_data on its own.                                               *)
(***************************************************************************)
InitFetch ==
    Start(HistResponses(SampleCells), SampleCells)

NextFetch ==
    GetCftcData

SpecFetch ==
    InitFetch /\ [][NextFetch]_vars

(***************************************************************************)
(* find_column on its own, over bounded column lists and keyword lists.    *)
(***************************************************************************)
FindLabels ==
    {S(<<"A", "b">>), S(<<"b", "_", "A">>), S(<<"a">>), S(<<"B">>), I(0)}

FindKeywords ==
    {<<"a">>, <<"b">>, <<"a", "b">>, <<"A">>}

MainIdle ==
    /\ pc = "idle"
    /\ year = 0
    /\ srv_hist = Raised
    /\ srv_live = Raised
    /\ requests = <<>>
    /\ df_hist = EmptyDF
    /\ df_live = EmptyDF
    /\ cftc_df = Unset
    /\ gold_data = Unset
    /\ euro_data = Unset
    /\ macro_df = Unset
    /\ today = 0
    /\ alert = FALSE
    /\ gold_view = "none"
    /\ euro_view = "none"

InitFind ==
    /\ MainIdle
    /\ fc_columns \in SeqsUpTo(FindLabels, MaxCols)
    /\ fc_keywords \in SeqsUpTo(FindKeywords, MaxKeywords)
    /\ fc_result = None
    /\ fc_pc = "call"

\* The call fc_result = find_column(fc_columns, fc_keywords).
FindColumn ==
    /\ fc_pc = "call"
    /\ fc_result' = find_column(fc_columns, fc_keywords)
    /\ fc_pc' = "returned"
    /\ UNCHANGED <<fc_columns, fc_keywords>>
    /\ UNCHANGED mainVars

NextFind ==
    FindColumn

SpecFind ==
    InitFind /\ [][NextFind]_vars

(***************************************************************************)
(* The claims.                                                             *)
(***************************************************************************)
\* process_cftc has returned this outcome (it did not raise).
Processed(out) ==
    out # Unset /\ ~out.raised

\* The columns process_cftc resolves in df, None when there is none.
ResolvedName(df) ==
    Or(find_column(df.cols, NameKeywords1), find_column(df.cols, NameKeywords2))

ResolvedDate(df) ==
    Or(find_column(df.cols, DateKeywords1), find_column(df.cols, DateKeywords2))

ResolvedLong(df) ==
    find_column(df.cols, LongKeywords)

ResolvedShort(df) ==
    find_column(df.cols, ShortKeywords)

AllResolved(df) ==
    /\ ResolvedName(df) # None
    /\ ResolvedDate(df) # None
    /\ ResolvedLong(df) # None
    /\ ResolvedShort(df) # None

\* Date b is later than date a; as in pandas, no comparison with NaT is true.
Later(b, a) ==
    a # NaT /\ b # NaT /\ b > a

StrictlyIncreasing(data) ==
    \A i \in 1..(Len(data) - 1) : Later(data[i + 1].Date_Display, data[i].Date_Display)

\* C1: the series process_cftc returns has strictly increasing report dates:
\* no two records share a date and each date is later than the one before.
C1_StrictlyIncreasingDates ==
    /\ Processed(gold_data) => StrictlyIncreasing(gold_data.data)
    /\ Processed(euro_data) => StrictlyIncreasing(euro_data.data)

\* In the series out, returned for the instrument of these keywords, every
\* date that a history row and a latest-week row of one instrument both
\* report, with different net positions, is kept from the latest-week row.
LatestWeekWins(out, name_keywords) ==
    (Processed(out) /\ out.data # <<>>) =>
        LET df == cftc_df
            n_hist == Len(df_hist.rows)
            name_pos == ColPos(df.cols, ResolvedName(df))
            date_pos == ColPos(df.cols, ResolvedDate(df))
            long_pos == ColPos(df.cols, ResolvedLong(df))
            short_pos == ColPos(df.cols, ResolvedShort(df))
            Net(r) == Minus(df.rows[r][long_pos], df.rows[r][short_pos])
        IN  \A h \in 1..n_hist : \A l \in (n_hist + 1)..Len(df.rows) :
                ( /\ NameMatches(df.rows[h][name_pos], name_keywords)
                  /\ df.rows[l][name_pos] = df.rows[h][name_pos]
                  /\ df.rows[l][date_pos] = df.rows[h][date_pos]
                  /\ Net(l) # Net(h) )
                => \A i \in 1..Len(out.data) :
                      out.data[i].Date_Display = to_datetime(df.rows[h][date_pos])
                      => out.data[i].idx >= n_hist

\* C2: when the history rows and the latest-week rows both hold a record of
\* the same instrument for the same report date with different net
\* positions, the record process_cftc keeps is the latest-week one, whatever
\* order the sort gives equal dates.
C2_LatestWeekWins ==
    /\ LatestWeekWins(gold_data, GoldKeywords)
    /\ LatestWeekWins(euro_data, EuroKeywords)

\* process_cftc, called on a non-empty table with a column it cannot
\* resolve, returned an empty frame: it did not raise.
RejectsUnresolved(out) ==
    (out # Unset /\ ~Empty(cftc_df) /\ ~AllResolved(cftc_df)) =>
        (~out.raised /\ out.data = <<>>)

\* C3: for a non-empty table with any of the four logical columns
\* unresolved, process_cftc returns an empty result and never raises.
C3_UnresolvedGivesEmpty ==
    /\ RejectsUnresolved(gold_data)
    /\ RejectsUnresolved(euro_data)

\* The fetch got a table / failed (an exception, a status other than 200,
\* or content that does not parse).
GotTable(r) ==
    ~r.exc /\ r.status = 200 /\ r.body # Garbage

FetchFailed(r) ==
    r.exc \/ r.status # 200 \/ r.body = Garbage

\* C4: if the annual-history fetch succeeds and the latest-week fetch fails,
\* get_cftc_data returns every row of the history table, unchanged.
C4_HistoryKeptWhenLatestFails ==
    (pc # "fetch" /\ GotTable(srv_hist) /\ FetchFailed(srv_live)) =>
        /\ cftc_df.rows = srv_hist.body.rows
        /\ srv_hist.body.rows # <<>> => cftc_df.cols = srv_hist.body.cols

C4_Witness ==
    /\ pc = "gold"
    /\ GotTable(srv_hist)
    /\ Len(srv_hist.body.rows) = 2
    /\ srv_live = Response(200, Garbage)
    /\ cftc_df.rows = srv_hist.body.rows

\* C5: if the annual-history fetch fails and the latest-week fetch succeeds,
\* get_cftc_data returns a non-empty table holding the latest-week rows.
C5_LatestKeptWhenHistoryFails ==
    (pc # "fetch" /\ FetchFailed(srv_hist) /\ GotTable(srv_live)) =>
        /\ ~Empty(cftc_df)
        /\ cftc_df.rows = srv_live.body.rows

HistoryRequests(y) ==
    {i \in 1..Len(requests) : requests[i] = [kind |-> "history", year |-> y]}

\* C6: the current year's annual-history bundle is requested first; if that
\* fetch fails or yields no content the prior year's bundle is requested
\* exactly once; no earlier year is ever requested.
C6_PriorYearFallback ==
    pc # "fetch" =>
        /\ requests # <<>>
        /\ requests[1] = [kind |-> "history", year |-> year]
        /\ Empty(df_hist) => Cardinality(HistoryRequests(year - 1)) = 1
        /\ \A i \in 1..Len(requests) :
              requests[i].kind = "history" => requests[i].year >= year - 1

\* get_macro_multi has returned (it did not raise).
MacroReturned ==
    macro_df # Unset /\ ~macro_df.raised

\* C7: when the main program has ended and processing gold failed (an empty
\* result or a raised error), euro has been processed and, if what ran
\* after gold (euro's own processing, get_macro_multi) did not raise,
\* displayed.
C7_EuroIsolatedFromGold ==
    ( /\ pc \in {"done", "crashed"}
      /\ gold_data # Unset
      /\ (gold_data.raised \/ gold_data.data = <<>>) )
    => /\ euro_data # Unset
       /\ (~euro_data.raised /\ MacroReturned) => euro_view # "none"

\* C8: a non-empty series whose last report date is d days before the
\* current date is FRESH (no alert) exactly when d < 14, and LAGGING (the
\* alert is shown) for every d >= 14.
C8_LaggingFrom14Days ==
    (today # 0 /\ gold_data.data[Len(gold_data.data)].Date_Display # NaT) =>
        LET d == today - gold_data.data[Len(gold_data.data)].Date_Display
        IN  alert <=> d >= 14

SingleInstrument(out) ==
    Processed(out) =>
        \A i, j \in 1..Len(out.data) : out.data[i].name = out.data[j].name

\* C9: the series process_cftc returns for the keyword sets of the main
\* program holds records of a single instrument: all its rows carry the same
\* market name.
C9_SingleInstrument ==
    /\ SingleInstrument(gold_data)
    /\ SingleInstrument(euro_data)

\* Column i of fc_columns contains every keyword of fc_keywords.
FcMatches(i) ==
    \A k \in 1..Len(fc_keywords) :
        Contains(fc_keywords[k], Lower(Str(fc_columns[i])))

\* C10: find_column returns the first column, in the order of the list,
\* whose lowercased identifier contains every keyword, and None exactly when
\* no column contains all of them.
C10_FirstMatchingColumn ==
    fc_pc = "returned" =>
        IF \E i \in 1..Len(fc_columns) : FcMatches(i)
        THEN \E i \in 1..Len(fc_columns) :
                /\ FcMatches(i)
                /\ \A j \in 1..(i - 1) : ~FcMatches(j)
                /\ fc_result = fc_columns[i]
        ELSE fc_result = None

C10_Witness ==
    /\ fc_pc = "returned"
    /\ Len(fc_columns) = 3
    /\ Len(fc_keywords) = 2
    /\ fc_keywords[1] # fc_keywords[2]
    /\ ~FcMatches(1)
    /\ FcMatches(2)
    /\ FcMatches(3)
    /\ fc_columns[3] # fc_columns[2]
    /\ fc_result = fc_columns[2]
    /\ Lower(Str(fc_result)) # Str(fc_result)
====
